---- MODULE Spec2Model ----
(***************************************************************************)
(* A model of the Sudoku solver of src/src/puzzle.rs together with the     *)
(* NineSet (src/src/nine_set.rs) and NineByNine (src/src/nine_by_nine.rs)  *)
(* containers it is built on.                                              *)
(*                                                                         *)
(* Representation.  A NineByNine<u8> is the tuple of its 81 row-major      *)
(* cells; the Rust index row*9 + col is the 1-based index row*9 + col + 1  *)
(* here.  An Option<u8> cell is a number in 0..9 with 0 standing for None  *)
(* (the encoding from_string itself reads).  An Option<SudokuPuzzle> is    *)
(* the tuple of the puzzle's cells, or the empty tuple for None.  A        *)
(* NineSet is its contents array, a function from 1..9 (Rust index n-1)    *)
(* to BOOLEAN.  The recursion solve -> try_guesses -> solve is unfolded    *)
(* into an explicit stack of try_guesses frames.                           *)
(***************************************************************************)
EXTENDS Integers, Sequences, FiniteSets, TLC

VARIABLES
    input,          \* the puzzle handed to the outermost solve (never written)
    pc,             \* position of the running call
    self,           \* `self` of the innermost running solve
    prev_unfilled,  \* fill_all: prev_unfilled
    filled,         \* fill_all: filled (Option<SudokuPuzzle>)
    last_in,        \* the puzzle the most recent fill_once was applied to
    passes,         \* number of fill_once calls of the running fill_all
    stack,          \* the active try_guesses frames, outermost first
    ret,            \* value returned by the most recently finished solve
    last_try,       \* record of the most recently finished try_guesses
    guessed         \* number of guesses (recursive solve calls) made so far

vars == <<input, pc, self, prev_unfilled, filled, last_in, passes, stack,
          ret, last_try, guessed>>

-----------------------------------------------------------------------------
(* Program constants *)

Side == 9           \* rows, columns, squares, and the NineSet universe
BoxSide == 3        \* side of a 3x3 square
Unfilled == 0       \* the encoding of Option::None in a cell

Rows == 0 .. (Side - 1)
Cols == 0 .. (Side - 1)
Digits == 1 .. Side
Idx == 1 .. (Side * Side)

NoPuzzle == << >>   \* Option<SudokuPuzzle>::None

-----------------------------------------------------------------------------
(* nine_by_nine.rs *)

new == [i \in Idx |-> Unfilled]

get(nums, row, col) == nums[row * Side + col + 1]

set(nums, row, col, val) == [nums EXCEPT ![row * Side + col + 1] = val]

count_nones(nums) == Cardinality({i \in Idx : nums[i] = Unfilled})

-----------------------------------------------------------------------------
(* nine_set.rs *)

empty == [n \in Digits |-> FALSE]

AddOk(n) == n >= 1 /\ n <= Side

add(s, n) == [s EXCEPT ![n] = TRUE]

contains(s, n) == n >= 1 /\ n <= Side /\ s[n]

size(s) == Cardinality({n \in Digits : s[n]})

to_vec(s) == SelectSeq([n \in Digits |-> n], LAMBDA n : contains(s, n))

complement(s) == [n \in Digits |-> ~ s[n]]

RECURSIVE FromVec(_, _)
FromVec(s, nums) ==
    IF nums = << >> THEN s ELSE FromVec(add(s, Head(nums)), Tail(nums))

NineSetFrom(nums) == FromVec(empty, nums)

union(sets) ==
    [n \in Digits |-> \E i \in 1 .. Len(sets) : contains(sets[i], n)]

-----------------------------------------------------------------------------
(* puzzle.rs: lists and sets of a row, a column, a square *)

Filled(n) == n # Unfilled

row_list(nums, row_idx) ==
    SelectSeq([k \in 1 .. Side |-> get(nums, row_idx, k - 1)], Filled)

col_list(nums, col_idx) ==
    SelectSeq([k \in 1 .. Side |-> get(nums, k - 1, col_idx)], Filled)

SqrRow(sqr_idx, i) == (sqr_idx \div BoxSide) * BoxSide + (i \div BoxSide)
SqrCol(sqr_idx, i) == (sqr_idx % BoxSide) * BoxSide + (i % BoxSide)

sqr_list(nums, sqr_idx) ==
    SelectSeq([k \in 1 .. Side |->
                  get(nums, SqrRow(sqr_idx, k - 1), SqrCol(sqr_idx, k - 1))],
              Filled)

row_set(nums, row_idx) == NineSetFrom(row_list(nums, row_idx))
col_set(nums, col_idx) == NineSetFrom(col_list(nums, col_idx))
sqr_set(nums, sqr_idx) == NineSetFrom(sqr_list(nums, sqr_idx))

\* Mutant of SqrOf: the square index transposed.
SqrOf_transposed(row, col) == (col \div BoxSide) * BoxSide + (row \div BoxSide)

SqrOf(row, col) == (row \div BoxSide) * BoxSide + (col \div BoxSide)

could_be_set(nums, row, col) ==
    complement(union(<<row_set(nums, row),
                       col_set(nums, col),
                       sqr_set(nums, SqrOf(row, col))>>))

could_be_sets(nums) ==
    [i \in Idx |->
        LET row == (i - 1) \div Side
            col == (i - 1) % Side
        IN  IF get(nums, row, col) # Unfilled
              THEN add(empty, get(nums, row, col))
              ELSE could_be_set(nums, row, col)]

count_unfilled(nums) == count_nones(nums)

\* Mutant of is_consistent: `<` for `!=`; a list is never shorter than its set.
is_consistent_lt(nums) ==
    \A i \in 0 .. (Side - 1) :
        LET row == row_list(nums, i)
            col == col_list(nums, i)
            sqr == sqr_list(nums, i)
        IN  ~ ( \/ Len(row) < size(NineSetFrom(row))
                \/ Len(col) < size(NineSetFrom(col))
                \/ Len(sqr) < size(NineSetFrom(sqr)) )

is_consistent(nums) ==
    \A i \in 0 .. (Side - 1) :
        LET row == row_list(nums, i)
            col == col_list(nums, i)
            sqr == sqr_list(nums, i)
        IN  ~ ( \/ Len(row) # size(NineSetFrom(row))
                \/ Len(col) # size(NineSetFrom(col))
                \/ Len(sqr) # size(NineSetFrom(sqr)) )

\* Mutant of is_solved: the consistency check left out.
is_solved_count_only(nums) == count_unfilled(nums) = 0

\* Mutant of is_solved: a full grid is asked to be inconsistent.
is_solved_negated(nums) == count_unfilled(nums) = 0 /\ ~ is_consistent(nums)

is_solved(nums) == count_unfilled(nums) = 0 /\ is_consistent(nums)

\* Mutant of fill_once: `>= 1` for `== 1`; a cell takes its first candidate.
fill_once_eager(nums) ==
    LET sets == could_be_sets(nums)
        sizes == [i \in Idx |-> size(sets[i])]
    IN  IF \E i \in Idx : sizes[i] = 0
          THEN NoPuzzle
          ELSE [i \in Idx |->
                   IF sizes[i] >= 1 THEN to_vec(sets[i])[1] ELSE Unfilled]

\* Mutant of fill_once: only the cells deduced in this pass are written to the
\* fresh array; the cells already filled are not copied.
fill_once_fresh(nums) ==
    LET sets == could_be_sets(nums)
        sizes == [i \in Idx |-> size(sets[i])]
    IN  IF \E i \in Idx : sizes[i] = 0
          THEN NoPuzzle
          ELSE [i \in Idx |->
                   IF sizes[i] = 1 /\ nums[i] = Unfilled
                     THEN to_vec(sets[i])[1] ELSE Unfilled]

fill_once(nums) ==
    LET sets == could_be_sets(nums)
        sizes == [i \in Idx |-> size(sets[i])]
    IN  IF \E i \in Idx : sizes[i] = 0
          THEN NoPuzzle
          ELSE [i \in Idx |->
                   IF sizes[i] = 1 THEN to_vec(sets[i])[1] ELSE Unfilled]

-----------------------------------------------------------------------------
(* puzzle.rs: try_guesses, lines 66-76 *)

\* The scan of lines 67-75 from cell i on: (row, col) is overwritten at every
\* cell whose set has more than one member; found records whether it was.
RECURSIVE ScanFrom(_, _, _)
ScanFrom(sets, i, acc) ==
    IF i > Side * Side THEN acc
    ELSE ScanFrom(sets, i + 1,
                  IF size(sets[i]) > 1
                    THEN [row |-> (i - 1) \div Side, col |-> (i - 1) % Side,
                          found |-> TRUE]
                    ELSE acc)

\* Mutant of guess_cell: the scan stops at the first cell it finds.
guess_cell_first(sets) ==
    LET open == {i \in Idx : size(sets[i]) > 1}
        i == CHOOSE x \in open : \A y \in open : x <= y
    IN  IF open = {} THEN [row |-> 0, col |-> 0, found |-> FALSE]
        ELSE [row |-> (i - 1) \div Side, col |-> (i - 1) % Side,
              found |-> TRUE]

guess_cell(sets) == ScanFrom(sets, 1, [row |-> 0, col |-> 0, found |-> FALSE])

\* Mutant of try_guesses_frame: only the first guess is tried.
try_guesses_frame_first_only(nums) ==
    LET sets == could_be_sets(nums)
        cell == guess_cell(sets)
    IN  [puz     |-> nums,
         row     |-> cell.row,
         col     |-> cell.col,
         found   |-> cell.found,
         guesses |-> SubSeq(to_vec(get(sets, cell.row, cell.col)), 1, 1),
         k       |-> 1,
         failed  |-> << >>]

\* The frame of a try_guesses call on puzzle nums, before its first guess.
try_guesses_frame(nums) ==
    LET sets == could_be_sets(nums)
        cell == guess_cell(sets)
    IN  [puz     |-> nums,
         row     |-> cell.row,
         col     |-> cell.col,
         found   |-> cell.found,
         guesses |-> to_vec(get(sets, cell.row, cell.col)),
         k       |-> 1,
         failed  |-> << >>]

\* Mutant of puzzle_guess: the clone is solved without the guess being set.
puzzle_guess_unset(f) == f.puz

\* puzzle_guess of lines 81-82 for the frame's current guess.
puzzle_guess(f) == set(f.puz, f.row, f.col, f.guesses[f.k])

NoTry == [puz |-> NoPuzzle, row |-> 0, col |-> 0, found |-> FALSE,
          guesses |-> << >>, failed |-> << >>, result |-> NoPuzzle,
          calls |-> 0]

-----------------------------------------------------------------------------
(* Inputs *)

\* The example puzzle of main.rs, lines 37-45.
Example ==
    << 4,1,0,0,3,6,0,0,0,
       0,0,7,0,0,0,8,5,0,
       6,0,0,0,0,0,0,0,0,
       0,9,0,0,0,0,2,0,0,
       0,0,6,0,7,0,0,0,8,
       0,0,0,0,0,0,0,9,1,
       0,0,2,0,1,4,0,0,0,
       0,0,0,0,0,3,0,0,0,
       7,4,0,0,0,8,5,0,9 >>

\* A solved grid: each row is the row above it shifted by three, and by one
\* more from one band of three rows to the next.
Base ==
    [i \in Idx |->
        LET row == (i - 1) \div Side
            col == (i - 1) % Side
        IN  (((row % BoxSide) * BoxSide + (row \div BoxSide) + col) % Side) + 1]

MaxBlankRows == 5   \* seeds keep the top rows of Base and blank the others
MaxEdits == 2       \* cells of a seed that an input overwrites

\* Base with its last k rows blanked.
BaseTop(k) ==
    [i \in Idx |-> IF (i - 1) \div Side < Side - k THEN Base[i] ELSE Unfilled]

Seeds == {BaseTop(k) : k \in 0 .. MaxBlankRows} \cup {Example}

EditCells == {1, 2, Side * Side}    \* (0,0), (0,1) and (8,8)
EditVals == {Unfilled, 2, 5}

Overlay(g, S, v) == [i \in Idx |-> IF i \in S THEN v ELSE g[i]]

\* Two 5's in row 0, every other cell empty.
TwoFives == set(set(new, 0, 0, 5), 0, 1, 5)

Inputs ==
    {Overlay(g, S, v) :
        g \in Seeds,
        S \in {T \in SUBSET EditCells : Cardinality(T) <= MaxEdits},
        v \in EditVals}
    \cup {new, TwoFives}

-----------------------------------------------------------------------------
(* The state machine *)

Init ==
    /\ input \in Inputs
    /\ pc = "solve"
    /\ self = input
    /\ prev_unfilled = 0
    /\ filled = NoPuzzle
    /\ last_in = NoPuzzle
    /\ passes = 0
    /\ stack = << >>
    /\ ret = NoPuzzle
    /\ last_try = NoTry
    /\ guessed = 0

Top == stack[Len(stack)]
Pop == SubSeq(stack, 1, Len(stack) - 1)

\* fill_all, lines 94-95: the first pass.
fill_all_first ==
    /\ pc = "solve"
    /\ prev_unfilled' = count_nones(self)
    /\ filled' = fill_once(self)
    /\ last_in' = self
    /\ passes' = 1
    /\ pc' = "fill_all"
    /\ UNCHANGED <<input, self, stack, ret, last_try, guessed>>

\* Mutant of fill_all_continue: `if` for `while`; at most one more pass.
fill_all_continue_once ==
    filled # NoPuzzle /\ count_unfilled(filled) # prev_unfilled /\ passes < 2

\* The loop condition of line 97.
fill_all_continue ==
    filled # NoPuzzle /\ count_unfilled(filled) # prev_unfilled

\* fill_all, lines 97-100: one iteration of the loop.
fill_all_again ==
    /\ pc = "fill_all"
    /\ fill_all_continue
    /\ prev_unfilled' = count_unfilled(filled)
    /\ filled' = fill_once(filled)
    /\ last_in' = filled
    /\ passes' = passes + 1
    /\ UNCHANGED <<input, pc, self, stack, ret, last_try, guessed>>

\* solve, lines 47-49: fill_all returned a solved puzzle.
solve_solved ==
    /\ pc = "fill_all"
    /\ ~ fill_all_continue
    /\ filled # NoPuzzle
    /\ is_solved(filled)
    /\ ret' = filled
    /\ pc' = "return"
    /\ UNCHANGED <<input, self, prev_unfilled, filled, last_in, passes, stack,
                   last_try, guessed>>

\* solve, lines 50-51, and try_guesses, lines 64-76.
solve_try_guesses ==
    /\ pc = "fill_all"
    /\ ~ fill_all_continue
    /\ filled # NoPuzzle
    /\ ~ is_solved(filled)
    /\ is_consistent(filled)
    /\ stack' = Append(stack, try_guesses_frame(filled))
    /\ pc' = "try_guesses"
    /\ UNCHANGED <<input, self, prev_unfilled, filled, last_in, passes, ret,
                   last_try, guessed>>

\* solve, lines 52-57: an inconsistent fixpoint, or a failed propagation.
solve_none ==
    /\ pc = "fill_all"
    /\ ~ fill_all_continue
    /\ \/ filled = NoPuzzle
       \/ filled # NoPuzzle /\ ~ is_solved(filled) /\ ~ is_consistent(filled)
    /\ ret' = NoPuzzle
    /\ pc' = "return"
    /\ UNCHANGED <<input, self, prev_unfilled, filled, last_in, passes, stack,
                   last_try, guessed>>

\* try_guesses, lines 80-83: the next guess and the recursive call of solve.
try_guesses_guess ==
    /\ pc = "try_guesses"
    /\ Top.k <= Len(Top.guesses)
    /\ self' = puzzle_guess(Top)
    /\ guessed' = guessed + 1
    /\ pc' = "solve"
    /\ UNCHANGED <<input, prev_unfilled, filled, last_in, passes, stack, ret,
                   last_try>>

\* What try_guesses hands back when it returns result from frame f.
finished_try(f, result) ==
    [puz |-> f.puz, row |-> f.row, col |-> f.col, found |-> f.found,
     guesses |-> f.guesses, failed |-> f.failed, result |-> result,
     calls |-> Len(f.failed) + (IF result = NoPuzzle THEN 0 ELSE 1)]

\* try_guesses, line 88: every guess failed.
try_guesses_none ==
    /\ pc = "try_guesses"
    /\ Top.k > Len(Top.guesses)
    /\ ret' = NoPuzzle
    /\ last_try' = finished_try(Top, NoPuzzle)
    /\ stack' = Pop
    /\ pc' = "return"
    /\ UNCHANGED <<input, self, prev_unfilled, filled, last_in, passes, guessed>>

\* try_guesses, lines 83-85: the recursive solve returned.
guess_returned ==
    /\ pc = "return"
    /\ stack # << >>
    /\ \/ /\ ret # NoPuzzle
          /\ last_try' = finished_try(Top, ret)
          /\ stack' = Pop
          /\ pc' = "return"
       \/ /\ ret = NoPuzzle
          /\ stack' = [stack EXCEPT ![Len(stack)] =
                          [@ EXCEPT !.k = @ + 1,
                                    !.failed = Append(@, Top.guesses[Top.k])]]
          /\ pc' = "try_guesses"
          /\ UNCHANGED last_try
    /\ UNCHANGED <<input, self, prev_unfilled, filled, last_in, passes, ret,
                   guessed>>

\* main.rs, line 27: the outermost solve returned.
solve_done ==
    /\ pc = "return"
    /\ stack = << >>
    /\ pc' = "done"
    /\ UNCHANGED <<input, self, prev_unfilled, filled, last_in, passes, stack,
                   ret, last_try, guessed>>

Next ==
    \/ fill_all_first
    \/ fill_all_again
    \/ solve_solved
    \/ solve_try_guesses
    \/ solve_none
    \/ try_guesses_guess
    \/ try_guesses_none
    \/ guess_returned
    \/ solve_done

Spec == Init /\ [][Next]_vars

-----------------------------------------------------------------------------
(* The rules of Sudoku, stated on cells rather than on the solver's lists   *)
(* and sets: what the properties below compare the solver against.          *)

RowOf(i) == (i - 1) \div Side
ColOf(i) == (i - 1) % Side

RowUnit(r) == {i \in Idx : RowOf(i) = r}
ColUnit(c) == {i \in Idx : ColOf(i) = c}
\* The box in band a (rows 3a..3a+2) and stack b (columns 3b..3b+2).
BoxUnit(a, b) ==
    {i \in Idx : RowOf(i) \div BoxSide = a /\ ColOf(i) \div BoxSide = b}

Units ==
    {RowUnit(r) : r \in Rows} \cup {ColUnit(c) : c \in Cols}
    \cup {BoxUnit(a, b) : a \in 0 .. (BoxSide - 1), b \in 0 .. (BoxSide - 1)}

\* The cells sharing a row, a column or a box with cell i (i included).
UnitCells == [i \in Idx |-> UNION {U \in Units : i \in U}]

IsGrid(g) == DOMAIN g = Idx /\ \A i \in Idx : g[i] \in 0 .. Side

Empties(g) == {i \in Idx : g[i] = Unfilled}

\* Some value occurs twice in a row, a column or a box.
HasDuplicate(g) ==
    \E i \in Idx :
        g[i] # Unfilled /\ \E j \in UnitCells[i] \ {i} : g[j] = g[i]

\* No empty cell, and every row, column and box holds each of 1..9.
ValidSolution(g) ==
    /\ IsGrid(g)
    /\ Empties(g) = {}
    /\ \A U \in Units : {g[i] : i \in U} = Digits

\* g keeps every filled cell of h.
Extends(g, h) == \A i \in Idx : h[i] # Unfilled => g[i] = h[i]

\* The digits that no filled cell of i's row, column or box holds.
Candidates(g, i) == Digits \ {g[j] : j \in UnitCells[i]}

\* The possibility set of cell i.
Possible(g, i) == IF g[i] # Unfilled THEN {g[i]} ELSE Candidates(g, i)

Members(s) == {n \in Digits : s[n]}

Returned == pc \in {"return", "done"}

-----------------------------------------------------------------------------
\* C1: whenever a call of solve (the outermost one or a recursive one) returns
\* a grid, that grid has no empty cell and every row, column and 3x3 box of
\* it holds each of 1..9 exactly once.
C1_SolutionValid ==
    (Returned /\ ret # NoPuzzle) => ValidSolution(ret)

\* A solution was returned to the caller after at least two nested guesses,
\* one of which had to be retried.
C1_Witness ==
    /\ pc = "done"
    /\ ret # NoPuzzle
    /\ guessed >= 3
    /\ last_try.failed # << >>

\* C4: on an input with a duplicate in a row, column or box, solve makes no
\* guess, keeps every cell value within 0..9 (no NineSet precondition can
\* fail) and returns None, never a grid.
C4_DuplicateInputNone ==
    HasDuplicate(input) =>
        /\ guessed = 0
        /\ stack = << >>
        /\ IsGrid(self)
        /\ filled # NoPuzzle => IsGrid(filled)
        /\ Returned => ret = NoPuzzle

\* Two 5's in row 0 and nothing else: the outermost solve has returned.
C4_Witness ==
    /\ pc = "done"
    /\ input = TwoFives
    /\ ret = NoPuzzle

\* C5: every puzzle solve works on, and every grid it returns, holds the
\* input's value at each cell the input had filled; a fully filled consistent
\* input is returned unchanged after one pass and without a guess.
C5_GivensKept ==
    /\ Extends(self, input)
    /\ filled # NoPuzzle => Extends(filled, input)
    /\ \A d \in 1 .. Len(stack) : Extends(stack[d].puz, input)
    /\ (Returned /\ ret # NoPuzzle) => Extends(ret, input)
    /\ (pc = "done" /\ Empties(input) = {} /\ ~ HasDuplicate(input)) =>
            ret = input /\ passes = 1 /\ guessed = 0

\* The fully filled grid Base was solved.
C5_Witness ==
    /\ pc = "done"
    /\ input = Base
    /\ ret = Base

\* Every cell is the k-th cell of the square that SqrOf names for it, and of
\* no other square at no other position.
SquaresPartition ==
    \A row \in Rows, col \in Cols :
        /\ \E k \in 0 .. (Side - 1) :
              /\ SqrRow(SqrOf(row, col), k) = row
              /\ SqrCol(SqrOf(row, col), k) = col
        /\ Cardinality({<<q, k>> \in (0 .. (Side - 1)) \X (0 .. (Side - 1)) :
                            SqrRow(q, k) = row /\ SqrCol(q, k) = col}) = 1

\* C6: in the puzzle the latest pass read, could_be_sets gives a filled cell
\* the singleton of its value and an empty cell the digits absent from its
\* row, its column and its box; the square index of a cell names the square
\* whose enumeration contains the cell, and the squares partition the cells.
C6_CouldBeSets ==
    /\ pc = "fill_all" =>
          \A i \in Idx :
              Members(could_be_sets(last_in)[i]) = Possible(last_in, i)
    /\ SquaresPartition

\* A pass read a puzzle with filled and empty cells in which some empty cell
\* is excluded a digit by its box alone.
C6_Witness ==
    /\ pc = "fill_all"
    /\ \E i \in Empties(last_in) :
          \E n \in Digits \ Candidates(last_in, i) :
              \A j \in RowUnit(RowOf(i)) \cup ColUnit(ColOf(i)) :
                  last_in[j] # n

\* C7: a pass fails exactly when an empty cell of the puzzle it read has no
\* candidate; otherwise its result holds the single candidate at every cell
\* with one candidate and is empty at every cell with several; the puzzle it
\* read is not changed.
C7_FillOnce ==
    pc = "fill_all" =>
        /\ filled = NoPuzzle <=>
              \E i \in Empties(last_in) : Candidates(last_in, i) = {}
        /\ filled # NoPuzzle =>
              \A i \in Idx :
                  LET P == Possible(last_in, i)
                  IN  /\ Cardinality(P) = 1 => filled[i] \in P
                      /\ Cardinality(P) > 1 => filled[i] = Unfilled
        /\ passes = 1 => last_in = self

\* A pass filled a cell and left another one empty.
C7_Witness ==
    /\ pc = "fill_all"
    /\ filled # NoPuzzle
    /\ \E i, j \in Empties(last_in) :
          filled[i] # Unfilled /\ filled[j] = Unfilled

-----------------------------------------------------------------------------
\* Whether grid g can be completed: a search over the cells of g, always
\* branching on an empty cell with the fewest candidates.
RECURSIVE Fillable(_)
Fillable(g) ==
    LET E == Empties(g)
    IN  IF E = {} THEN ValidSolution(g)
        ELSE LET n == [i \in E |-> Cardinality(Candidates(g, i))]
                 i == CHOOSE x \in E : \A y \in E : n[x] <= n[y]
             IN  \E v \in Candidates(g, i) :
                     Fillable([g EXCEPT ![i] = v])

\* g has a valid completion.
HasCompletion(g) == ~ HasDuplicate(g) /\ Fillable(g)

\* C2: when the outermost solve has returned, it returned a valid completion
\* of the input if the input has one, and None only if it has none.
C2_Complete ==
    pc = "done" =>
        IF HasCompletion(input)
          THEN ret # NoPuzzle /\ ValidSolution(ret) /\ Extends(ret, input)
          ELSE ret = NoPuzzle

\* A puzzle with a completion was solved, partly by propagation, although
\* the first guess of the outermost try_guesses had failed.
C2_Witness ==
    /\ pc = "done"
    /\ ret # NoPuzzle
    /\ last_try.failed # << >>
    /\ Cardinality(Empties(input)) > Cardinality(Empties(ret)) + guessed

\* A consistent input without a completion: every guess was tried.
C2_WitnessNone ==
    /\ pc = "done"
    /\ ret = NoPuzzle
    /\ ~ HasDuplicate(input)
    /\ guessed > 0

-----------------------------------------------------------------------------
\* A rank of the states, ordered lexicographically (a proper prefix is
\* smaller): for each active try_guesses, outermost first, twice the number
\* of its guesses not yet answered plus one, then the stage of the running
\* call, where a fill_all ranks by the empty cells of the puzzle its latest
\* pass read.  Ranks are sequences of at most 82 numbers below 121, so no
\* behaviour whose every step lowers the rank is infinite.
Rank ==
    IF pc = "done" THEN << >>
    ELSE [d \in 1 .. Len(stack) |->
              2 * (Len(stack[d].guesses) - stack[d].k + 1) + 1]
         \o << CASE pc = "try_guesses" -> 120
                 [] pc = "solve"       -> 110
                 [] pc = "fill_all"    -> 20 + count_nones(last_in)
                 [] pc = "return"      -> 0 >>

LexLess(a, b) ==
    \E j \in 1 .. Len(b) :
        /\ \A i \in 1 .. (j - 1) : i <= Len(a) /\ a[i] = b[i]
        /\ j > Len(a) \/ a[j] < b[j]

\* What C3 asserts of every state: a recursive solve starts on a puzzle with
\* fewer empty cells than the puzzle its try_guesses was called on, the guesses
\* nest no deeper than the input has empty cells, a fill_all makes no more
\* passes than its puzzle has empty cells plus one, a guess is only made
\* inside a try_guesses, and the empty grid ends with a valid solution.
C3_Bounded ==
    /\ (pc = "solve" /\ stack # << >>) =>
          count_nones(self) < count_nones(Top.puz)
    /\ \A d \in 1 .. (Len(stack) - 1) :
          count_nones(stack[d + 1].puz) < count_nones(stack[d].puz)
    /\ Len(stack) <= count_nones(input)
    /\ pc = "fill_all" => passes <= count_nones(self) + 1
    /\ pc = "try_guesses" => stack # << >>
    /\ (pc = "done" /\ input = new) => ValidSolution(ret)

\* C3: solve terminates on every input: every state satisfies C3_Bounded and
\* every step lowers the rank.
C3_Terminates == [] C3_Bounded /\ [][LexLess(Rank', Rank)]_vars

\* The empty grid was solved.
C3_Witness ==
    /\ pc = "done"
    /\ input = new
    /\ ret # NoPuzzle
    /\ guessed > 0

\* The state in which the latest fill_all has returned.
FillAllReturned == pc \in {"try_guesses", "return", "done"}

\* C8, one step: a pass never leaves more cells empty than it found; after a
\* failed pass or a pass that changed no count there is no further pass, and
\* after any other pass there is one; the grid fill_all returns is a fixpoint
\* (equal to the puzzle the last pass read, each empty cell with at least two
\* candidates, so one more pass returns it again).
C8_Step ==
    /\ (pc' = "fill_all" /\ filled' # NoPuzzle) =>
          count_nones(filled') <= count_nones(last_in')
    /\ pc = "fill_all" =>
          IF filled = NoPuzzle \/ count_nones(filled) = count_nones(last_in)
            THEN pc' # "fill_all" /\ passes' = passes /\ filled' = filled
            ELSE pc' = "fill_all" /\ passes' = passes + 1 /\ last_in' = filled
    /\ (pc = "fill_all" /\ pc' # "fill_all" /\ filled' # NoPuzzle) =>
          /\ filled' = last_in'
          /\ \A i \in Empties(filled') :
                Cardinality(Candidates(filled', i)) >= 2
          /\ fill_once(filled') = filled'

\* C8: every step of fill_all satisfies C8_Step.
C8_FillAll == [][C8_Step]_vars

\* A fill_all needed at least three passes and returned a grid that still has
\* empty cells.
C8_Witness ==
    /\ FillAllReturned
    /\ passes >= 3
    /\ filled # NoPuzzle
    /\ Empties(filled) # {}

\* The candidates of cell i of g in ascending order.
RECURSIVE Ascending(_)
Ascending(S) ==
    IF S = {} THEN << >>
    ELSE LET m == CHOOSE x \in S : \A y \in S : x <= y
         IN  <<m>> \o Ascending(S \ {m})

FrameCell(f) == f.row * Side + f.col + 1

\* The cells of g with more than one possible value.
Open(g) == {i \in Idx : Cardinality(Possible(g, i)) > 1}

\* What C9 asserts of a try_guesses frame: its cell is the last one in
\* row-major order with several possible values, its guesses are the cell's
\* candidates in ascending order, and the guesses before the current one are
\* exactly those tried, each answered None.
C9_Frame(f) ==
    /\ FrameCell(f) \in Open(f.puz)
    /\ \A i \in Open(f.puz) : i <= FrameCell(f)
    /\ f.guesses = Ascending(Possible(f.puz, FrameCell(f)))
    /\ f.k \in 1 .. (Len(f.guesses) + 1)
    /\ f.failed = SubSeq(f.guesses, 1, f.k - 1)

\* C9, one step: every frame satisfies C9_Frame; a frame's puzzle, cell and
\* guesses never change while it is active; a recursive solve starts on the
\* frame's puzzle with the guessed cell alone assigned; try_guesses returns
\* the first grid a guess yields (every smaller candidate having been
\* answered None), and None only when every candidate was.
C9_Step ==
    /\ \A d \in 1 .. Len(stack') : C9_Frame(stack'[d])
    /\ \A d \in 1 .. Len(stack) :
          d <= Len(stack') =>
              /\ stack'[d].puz = stack[d].puz
              /\ FrameCell(stack'[d]) = FrameCell(stack[d])
              /\ stack'[d].guesses = stack[d].guesses
    /\ pc' = "solve" =>
          /\ stack' = stack
          /\ self' = [Top.puz EXCEPT ![FrameCell(Top)] = Top.guesses[Top.k]]
    /\ Len(stack') < Len(stack) =>
          LET f == Top
              all == Ascending(Possible(f.puz, FrameCell(f)))
          IN  /\ last_try'.puz = f.puz
              /\ last_try'.result = ret'
              /\ IF ret' = NoPuzzle
                   THEN last_try'.failed = all
                   ELSE /\ ret' = ret
                        /\ ret'[FrameCell(f)] \in Possible(f.puz, FrameCell(f))
                        /\ last_try'.failed =
                              SelectSeq(all, LAMBDA v : v < ret'[FrameCell(f)])

\* C9: every step satisfies C9_Step.
C9_TryGuesses == [][C9_Step]_vars

\* A try_guesses returned the grid of its third guess after two failed ones.
C9_Witness ==
    /\ pc = "return"
    /\ last_try.result # NoPuzzle
    /\ last_try.result = ret
    /\ Len(last_try.failed) >= 2

\* C10: every puzzle try_guesses runs on is free of duplicates, is a fixpoint
\* of propagation and has an empty cell; its scan found a cell, and that cell
\* is empty and within the grid; every cell value the solver handles lies in
\* 0..9, so no NineSet::add precondition fails.
C10_TryGuessesPre ==
    /\ \A d \in 1 .. Len(stack) :
          LET f == stack[d]
          IN  /\ IsGrid(f.puz)
              /\ ~ HasDuplicate(f.puz)
              /\ Empties(f.puz) # {}
              /\ \A i \in Empties(f.puz) :
                    Cardinality(Candidates(f.puz, i)) >= 2
              /\ f.found
              /\ f.row \in Rows /\ f.col \in Cols
              /\ f.puz[FrameCell(f)] = Unfilled
              /\ f.guesses # << >>
              /\ \A j \in 1 .. Len(f.guesses) : AddOk(f.guesses[j])
    /\ IsGrid(self) /\ \A i \in Idx : self[i] # Unfilled => AddOk(self[i])
    /\ filled # NoPuzzle => IsGrid(filled)

\* try_guesses runs three levels deep.
C10_Witness ==
    /\ pc = "try_guesses"
    /\ Len(stack) >= 3

====
